---- MODULE Spec2Model ----
(***************************************************************************)
(* Model of the hits-per-page connector                                    *)
(* (src/connectors/hits-per-page/connectHitsPerPage.ts).                   *)
(*                                                                         *)
(* The widget is a closure over `items`, `defaultItem`, `setHitsPerPage`   *)
(* and `createURLFactory`.  Every action below is one call of the factory  *)
(* or of one lifecycle hook by the owning runtime.  Each action records    *)
(* the call (`call`), the calls the hook made on its collaborators         *)
(* (`effects`: renderFn, unmountFn, warning output, helper methods) and    *)
(* what it returned (`ret`).                                               *)
(*                                                                         *)
(* The source file holds the connector twice (lines 1-316 and 318-642);    *)
(* the two copies differ in type names only, and the model follows the     *)
(* statements of the first.                                                *)
(***************************************************************************)
EXTENDS Integers, Sequences, FiniteSets, TLC

VARIABLES
    widgetParams,      \* the configuration handed to the factory
    widget,            \* "none" | "created" | "threw"
    items,             \* `let items` of the closure: the working item list
    defaultItem,       \* `const defaultItem`
    setHitsPerPage,    \* `let setHitsPerPage`: 0 = unassigned, k = built by the k-th init
    createURLFactory,  \* `let createURLFactory`: 0 = unassigned, k = built by the k-th init
    inits,             \* how many times init has run on this instance
    call,              \* the last call made by the runtime, with its arguments
    effects,           \* the collaborator calls that call made, in order
    ret                \* what that call returned (or the error it threw)

vars == <<widgetParams, widget, items, defaultItem, setHitsPerPage,
          createURLFactory, inits, call, effects, ret>>

(***************************************************************************)
(* Bounds                                                                  *)
(***************************************************************************)
\* longest configured item list
MaxItems == 2
\* how many times init may be called on one instance
MaxInits == 2

(***************************************************************************)
(* JavaScript values.  A string is the sequence of its characters.         *)
(***************************************************************************)
Undefined == [t |-> "undefined", n |-> 0, s |-> <<>>]
Null == [t |-> "null", n |-> 0, s |-> <<>>]
NaN == [t |-> "NaN", n |-> 0, s |-> <<>>]
Num(k) == [t |-> "number", n |-> k, s |-> <<>>]
Str(cs) == [t |-> "string", n |-> 0, s |-> cs]

DigitChars == <<"0", "1", "2", "3", "4", "5", "6", "7", "8", "9">>

IsDigit(c) == \E d \in 1..Len(DigitChars) : DigitChars[d] = c

DigitValue(c) == (CHOOSE d \in 1..Len(DigitChars) : DigitChars[d] = c) - 1

RECURSIVE ParseDigits(_)
ParseDigits(cs) ==
    IF cs = <<>> THEN 0
    ELSE 10 * ParseDigits(SubSeq(cs, 1, Len(cs) - 1)) + DigitValue(cs[Len(cs)])

\* Number(v): undefined and non-numeric strings give NaN, null and "" give 0
Number(v) ==
    CASE v.t = "undefined" -> NaN
      [] v.t = "null" -> Num(0)
      [] v.t = "NaN" -> NaN
      [] v.t = "number" -> v
      [] v.t = "string" ->
            IF v.s = <<>> THEN Num(0)
            ELSE IF \A i \in 1..Len(v.s) : IsDigit(v.s[i])
                 THEN Num(ParseDigits(v.s))
                 ELSE NaN

\* a === b: same type and same value, and NaN equals nothing
StrictEquals(a, b) == a.t # "NaN" /\ b.t # "NaN" /\ a = b

\* ToBoolean(v), the test behind `!v` and `v || w`
ToBoolean(v) ==
    CASE v.t = "undefined" -> FALSE
      [] v.t = "null" -> FALSE
      [] v.t = "NaN" -> FALSE
      [] v.t = "number" -> v.n # 0
      [] v.t = "string" -> v.s # <<>>

\* v || w
Or(v, w) == IF ToBoolean(v) THEN v ELSE w

(***************************************************************************)
(* Inputs                                                                  *)
(***************************************************************************)
Labels == <<"first", "second", "third", "fourth">>

ItemValues == {Undefined, Num(6), Num(12), Str(<<"1", "2">>)}

\* item.default is `true` or the field is left out
DefaultFlags == {"true", "absent"}

\* a configured item; the label is the one of its position
Item(i, v, d) == [label |-> Labels[i], value |-> v, default |-> d]

ItemLists ==
    UNION {{[i \in 1..len |-> Item(i, vs[i], ds[i])] :
                vs \in [1..len -> ItemValues], ds \in [1..len -> DefaultFlags]} :
           len \in 0..MaxItems}

\* `items` is either an array or something else (absent, an object, ...)
WidgetParamsSet ==
    {[isArray |-> TRUE, items |-> its] : its \in ItemLists}
        \cup {[isArray |-> FALSE, items |-> <<>>]}

\* values state.hitsPerPage takes: unset, numbers, and the strings a DOM
\* select hands to refine
StateValues == {Undefined, Num(0), Num(6), Num(12), Num(24), Str(<<"1", "2">>)}

\* values searchParameters.hitsPerPage takes at state export
LiveValues == {Undefined, Num(6), Num(12), Str(<<"1", "2">>)}

Queries == {"shoes", "hats"}

SearchParameters(h, q) == [hitsPerPage |-> h, query |-> q]

RefineValues ==
    {Undefined, Null, NaN, Num(0), Num(6), Str(<<>>), Str(<<"0">>),
     Str(<<"1", "2">>)}

UiValues == {Num(0), Num(6), Num(12)}

\* a UI state either lacks the hitsPerPage field or carries a value for it
UiStates ==
    {[has |-> FALSE, hitsPerPage |-> Undefined, query |-> q] : q \in Queries}
        \cup {[has |-> TRUE, hitsPerPage |-> v, query |-> q] :
                 v \in UiValues, q \in Queries}

(***************************************************************************)
(* The widget factory: validation of the configuration                     *)
(***************************************************************************)
IsDefault(item) == item.default = "true"

\* items.filter(item => item.default === true)
defaultItems(its) == SelectSeq(its, IsDefault)

\* validateItems without the test for more than one default
validateItems_NoMultipleTest(params) ==
    IF ~params.isArray THEN "The items option expects an array of objects."
    ELSE IF Len(defaultItems(params.items)) = 0
         THEN "A default value must be specified in items."
    ELSE "ok"

\* the three throws of the factory, in the order the code tests them
validateItems(params) ==
    IF ~params.isArray THEN "The items option expects an array of objects."
    ELSE IF Len(defaultItems(params.items)) = 0
         THEN "A default value must be specified in items."
    ELSE IF Len(defaultItems(params.items)) > 1
         THEN "More than one default value is specified in items."
    ELSE "ok"

\* placeholder for `defaultItem` while no widget exists
NoItem == [label |-> "", value |-> Undefined, default |-> "absent"]

NoCall == [op |-> "none"]

Factory ==
    /\ widget = "none"
    /\ call' = [op |-> "factory"]
    /\ effects' = <<>>
    /\ IF validateItems(widgetParams) # "ok"
       THEN /\ widget' = "threw"
            /\ ret' = [threw |-> TRUE, error |-> validateItems(widgetParams)]
            /\ UNCHANGED <<items, defaultItem>>
       ELSE /\ widget' = "created"
            /\ ret' = [threw |-> FALSE, type |-> "ais.hitsPerPage"]
            /\ items' = widgetParams.items
            /\ defaultItem' = defaultItems(widgetParams.items)[1]
    /\ UNCHANGED <<widgetParams, setHitsPerPage, createURLFactory, inits>>

(***************************************************************************)
(* normalizeItems, transformItems                                          *)
(***************************************************************************)
\* normalizeItems comparing without Number(): item.value === hitsPerPage
normalizeItems_NoCoercion(its, state) ==
    [i \in 1..Len(its) |->
        [label |-> its[i].label, value |-> its[i].value, default |-> its[i].default,
         isRefined |-> StrictEquals(its[i].value, state.hitsPerPage)]]

\* { ...item, isRefined: Number(item.value) === Number(hitsPerPage) }
normalizeItems(its, state) ==
    [i \in 1..Len(its) |->
        [label |-> its[i].label, value |-> its[i].value, default |-> its[i].default,
         isRefined |-> StrictEquals(Number(its[i].value), Number(state.hitsPerPage))]]

\* the default `transformItems = items => items`
transformItems(its) == its

(***************************************************************************)
(* init                                                                    *)
(***************************************************************************)
\* items.some(item => Number(state.hitsPerPage) === Number(item.value))
isCurrentInOptions(its, state) ==
    \E i \in 1..Len(its) :
        StrictEquals(Number(state.hitsPerPage), Number(its[i].value))

\* warning(condition, message) of lib/utils: prints unless the condition holds
warning(condition, message) ==
    IF condition THEN <<>> ELSE <<[fn |-> "warn", message |-> message]>>

\* the two warning calls of the recovery branch
initWarnings(its, state) ==
    IF ~isCurrentInOptions(its, state)
    THEN warning(~StrictEquals(state.hitsPerPage, Undefined),
                 "hitsPerPage is not defined.")
         \o warning(FALSE, "The items option of hitsPerPage does not contain the value coming from the state.")
    ELSE <<>>

\* { value: '', label: '' }
SyntheticItem == [label |-> "", value |-> Str(<<>>), default |-> "absent"]

\* recovery that appends the synthetic item: [...items, { value: '', label: '' }]
recoverItems_Append(its, state) ==
    IF ~isCurrentInOptions(its, state) THEN its \o <<SyntheticItem>> ELSE its

\* items = [{ value: '', label: '' }, ...items] when the current value is unlisted
recoverItems(its, state) ==
    IF ~isCurrentInOptions(its, state) THEN <<SyntheticItem>> \o its ELSE its

\* the object handed to renderFn, and its isFirstRender argument
renderCall(its, state, refineFn, urlFactory, hasNoResults, isFirstRender) ==
    [fn |-> "renderFn",
     items |-> transformItems(normalizeItems(its, state)),
     refine |-> refineFn,
     createURL |-> [factory |-> urlFactory, state |-> state],
     hasNoResults |-> hasNoResults,
     isFirstRender |-> isFirstRender]

initEffects(its, state, closure) ==
    initWarnings(its, state)
        \o <<renderCall(recoverItems(its, state), state, closure, closure, TRUE, TRUE)>>

init ==
    /\ widget = "created"
    /\ inits < MaxInits
    /\ \E h \in StateValues :
        LET state == SearchParameters(h, "shoes") IN
        /\ call' = [op |-> "init", state |-> state, itemsBefore |-> items]
        /\ setHitsPerPage' = inits + 1
        /\ createURLFactory' = inits + 1
        /\ items' = recoverItems(items, state)
        /\ effects' = initEffects(items, state, inits + 1)
        /\ ret' = [threw |-> FALSE]
    /\ inits' = inits + 1
    /\ UNCHANGED <<widgetParams, widget, defaultItem>>

(***************************************************************************)
(* refine: the setHitsPerPage closure built by init                        *)
(***************************************************************************)
helperSetQueryParameter(value) ==
    [fn |-> "helper.setQueryParameter", name |-> "hitsPerPage", value |-> value]

helperSearch == [fn |-> "helper.search"]

\* setHitsPerPage without the `value !== 0` exclusion
setHitsPerPageCalls_ZeroClears(value) ==
    IF ~ToBoolean(value)
    THEN <<helperSetQueryParameter(Undefined), helperSearch>>
    ELSE <<helperSetQueryParameter(value), helperSearch>>

\* !value && value !== 0 ? set(undefined).search() : set(value).search()
setHitsPerPageCalls(value) ==
    IF ~ToBoolean(value) /\ ~StrictEquals(value, Num(0))
    THEN <<helperSetQueryParameter(Undefined), helperSearch>>
    ELSE <<helperSetQueryParameter(value), helperSearch>>

\* the consumer calls the refine function it was handed by renderFn
refine ==
    /\ widget = "created"
    /\ setHitsPerPage # 0
    /\ \E v \in RefineValues :
        /\ call' = [op |-> "refine", value |-> v]
        /\ effects' = setHitsPerPageCalls(v)
    /\ ret' = [threw |-> FALSE]
    /\ UNCHANGED <<widgetParams, widget, items, defaultItem, setHitsPerPage,
                   createURLFactory, inits>>

(***************************************************************************)
(* render                                                                  *)
(***************************************************************************)
\* render that keeps init's `hasNoResults: true`
renderEffects_NoResultsAlways(its, state, nbHits, refineFn, urlFactory) ==
    <<renderCall(its, state, refineFn, urlFactory, TRUE, FALSE)>>

\* const hasNoResults = results.nbHits === 0; renderFn({...}, false)
renderEffects(its, state, nbHits, refineFn, urlFactory) ==
    <<renderCall(its, state, refineFn, urlFactory, nbHits = 0, FALSE)>>

NbHits == {0, 3}

render ==
    /\ widget = "created"
    /\ \E h \in StateValues, nbHits \in NbHits :
        LET state == SearchParameters(h, "shoes") IN
        /\ call' = [op |-> "render", state |-> state, nbHits |-> nbHits,
                    itemsBefore |-> items]
        /\ IF createURLFactory = 0
           THEN \* createURLFactory(state) with createURLFactory still undefined
                /\ effects' = <<>>
                /\ ret' = [threw |-> TRUE, error |-> "TypeError"]
           ELSE /\ effects' = renderEffects(items, state, nbHits, setHitsPerPage,
                                            createURLFactory)
                /\ ret' = [threw |-> FALSE]
    /\ UNCHANGED <<widgetParams, widget, items, defaultItem, setHitsPerPage,
                   createURLFactory, inits>>

(***************************************************************************)
(* dispose                                                                 *)
(***************************************************************************)
\* SearchParameters.setQueryParameter('hitsPerPage', value)
setQueryParameter(state, value) == [state EXCEPT !.hitsPerPage = value]

\* dispose that returns the state untouched
disposeResult_KeepsParameter(state) ==
    [effects |-> <<[fn |-> "unmountFn"]>>, ret |-> state]

\* unmountFn(); return state.setQueryParameter('hitsPerPage', undefined)
disposeResult(state) ==
    [effects |-> <<[fn |-> "unmountFn"]>>,
     ret |-> setQueryParameter(state, Undefined)]

dispose ==
    /\ widget = "created"
    /\ \E h \in StateValues, q \in Queries :
        LET state == SearchParameters(h, q) IN
        /\ call' = [op |-> "dispose", state |-> state]
        /\ effects' = disposeResult(state).effects
        /\ ret' = disposeResult(state).ret
    /\ UNCHANGED <<widgetParams, widget, items, defaultItem, setHitsPerPage,
                   createURLFactory, inits>>

(***************************************************************************)
(* getWidgetState, getWidgetSearchParameters                               *)
(***************************************************************************)
\* reading uiState.hitsPerPage: undefined when the field is absent
uiHitsPerPage(uiState) == IF uiState.has THEN uiState.hitsPerPage ELSE Undefined

getWidgetStateResult(uiState, searchParameters, dflt) ==
    LET hitsPerPage == searchParameters.hitsPerPage IN
    IF StrictEquals(hitsPerPage, Undefined) \/ StrictEquals(hitsPerPage, dflt.value)
    THEN uiState
    ELSE [uiState EXCEPT !.has = TRUE, !.hitsPerPage = hitsPerPage]

getWidgetState ==
    /\ widget = "created"
    /\ \E uiState \in UiStates, h \in LiveValues :
        LET searchParameters == SearchParameters(h, "shoes") IN
        /\ call' = [op |-> "getWidgetState", uiState |-> uiState,
                    searchParameters |-> searchParameters]
        /\ ret' = getWidgetStateResult(uiState, searchParameters, defaultItem)
    /\ effects' = <<>>
    /\ UNCHANGED <<widgetParams, widget, items, defaultItem, setHitsPerPage,
                   createURLFactory, inits>>

\* setQueryParameters({ hitsPerPage: uiState.hitsPerPage || defaultItem.value })
getWidgetSearchParametersResult(searchParameters, uiState, dflt) ==
    setQueryParameter(searchParameters, Or(uiHitsPerPage(uiState), dflt.value))

getWidgetSearchParameters ==
    /\ widget = "created"
    /\ \E uiState \in UiStates, h \in {Undefined, Num(12)} :
        LET searchParameters == SearchParameters(h, "shoes") IN
        /\ call' = [op |-> "getWidgetSearchParameters", uiState |-> uiState,
                    searchParameters |-> searchParameters]
        /\ ret' = getWidgetSearchParametersResult(searchParameters, uiState,
                                                  defaultItem)
    /\ effects' = <<>>
    /\ UNCHANGED <<widgetParams, widget, items, defaultItem, setHitsPerPage,
                   createURLFactory, inits>>

(***************************************************************************)
(* Specification                                                           *)
(***************************************************************************)
Init ==
    /\ widgetParams \in WidgetParamsSet
    /\ widget = "none"
    /\ items = <<>>
    /\ defaultItem = NoItem
    /\ setHitsPerPage = 0
    /\ createURLFactory = 0
    /\ inits = 0
    /\ call = NoCall
    /\ effects = <<>>
    /\ ret = [threw |-> FALSE]

Next ==
    \/ Factory
    \/ init
    \/ render
    \/ refine
    \/ dispose
    \/ getWidgetState
    \/ getWidgetSearchParameters

Spec == Init /\ [][Next]_vars

(***************************************************************************)
(* Vocabulary of the properties                                            *)
(***************************************************************************)
\* how many configured items carry default = true
NumDefault(its) == Cardinality({i \in 1..Len(its) : its[i].default = "true"})

\* the calls of one kind among the collaborator calls of the last hook
EffectsOf(fn) == SelectSeq(effects, LAMBDA e : e.fn = fn)

\* the number a value stands for under numeric coercion, if any
CoercedNumbers(v) ==
    CASE v.t = "number" -> {v.n}
      [] v = Null -> {0}
      [] v = Str(<<>>) -> {0}
      [] v = Str(<<"0">>) -> {0}
      [] v = Str(<<"1", "2">>) -> {12}
      [] OTHER -> {}

NumericallyEqual(a, b) == CoercedNumbers(a) \cap CoercedNumbers(b) # {}

\* the page size of the last init or render is the value of some item of `its`
Listed(its) ==
    \E i \in 1..Len(its) : NumericallyEqual(its[i].value, call.state.hitsPerPage)

FalsyValues == {Undefined, Null, NaN, Num(0), Str(<<>>)}

(***************************************************************************)
(* C1: construction fails (and yields no widget) exactly when `items` is   *)
(* not an array or the number of items with default = true is zero or      *)
(* more than one; with exactly one such item it succeeds.                  *)
(***************************************************************************)
C1_ConstructionValidation ==
    widget # "none" =>
        /\ (widget = "threw") <=>
              \/ ~widgetParams.isArray
              \/ NumDefault(widgetParams.items) = 0
              \/ NumDefault(widgetParams.items) > 1
        /\ (widget = "created") <=>
              (widgetParams.isArray /\ NumDefault(widgetParams.items) = 1)
        /\ widget = "threw" => (call.op = "factory" /\ ret.threw)
        /\ widget = "created" => (defaultItem.default = "true" /\ call.op # "none")

C1_Witness ==
    /\ widget = "threw"
    /\ widgetParams.isArray
    /\ NumDefault(widgetParams.items) > 1

(***************************************************************************)
(* C2: refine(v) issues exactly setQueryParameter('hitsPerPage', x) then   *)
(* search(): x = 0 for v = 0, x = undefined for every other falsy v, and   *)
(* x = v for every truthy v.                                               *)
(***************************************************************************)
C2_RefineCalls ==
    call.op = "refine" =>
        /\ Len(effects) = 2
        /\ effects[1].fn = "helper.setQueryParameter"
        /\ effects[1].name = "hitsPerPage"
        /\ effects[2] = [fn |-> "helper.search"]
        /\ effects[1].value =
              IF call.value = Num(0) THEN Num(0)
              ELSE IF call.value \in FalsyValues THEN Undefined
              ELSE call.value

C2_Witness ==
    /\ call.op = "refine"
    /\ call.value = Num(0)
    /\ effects[1].value = Num(0)
    /\ effects[2].fn = "helper.search"

(***************************************************************************)
(* C3: state export omits hitsPerPage when the live value equals the       *)
(* default item's value and otherwise carries the live value, for every    *)
(* incoming UI state; the other fields are kept.                           *)
(***************************************************************************)
C3_ExportOmitsDefault ==
    call.op = "getWidgetState" =>
        /\ IF StrictEquals(call.searchParameters.hitsPerPage, defaultItem.value)
           THEN ~ret.has
           ELSE uiHitsPerPage(ret) = call.searchParameters.hitsPerPage
        /\ ret.query = call.uiState.query

(***************************************************************************)
(* C4: state import sets hitsPerPage to the snapshot's value whenever the  *)
(* snapshot carries one (0 included) and to the default item's value       *)
(* exactly when the field is absent.                                       *)
(***************************************************************************)
C4_ImportUsesSnapshot ==
    call.op = "getWidgetSearchParameters" =>
        ret.hitsPerPage =
            IF call.uiState.has THEN call.uiState.hitsPerPage ELSE defaultItem.value

C6_MatchingEntry ==
    (/\ call.op \in {"init", "render"}
     /\ Len(EffectsOf("renderFn")) = 1
     /\ Len(items) > Len(widgetParams.items)
     /\ ~Listed(widgetParams.items))
        => \E i \in 1..Len(EffectsOf("renderFn")[1].items) :
              EffectsOf("renderFn")[1].items[i].isRefined

(***************************************************************************)
(* C7: the items handed to renderFn are the working list, in order, with   *)
(* label, value and default unchanged and isRefined true exactly for a     *)
(* value numerically equal to the state's page size; render leaves the     *)
(* working list as it was.                                                 *)
(***************************************************************************)
C7_NormalizedItems ==
    /\ \A k \in 1..Len(EffectsOf("renderFn")) :
          LET shown == EffectsOf("renderFn")[k].items IN
          /\ Len(shown) = Len(items)
          /\ \A i \in 1..Len(items) :
                /\ shown[i].label = items[i].label
                /\ shown[i].value = items[i].value
                /\ shown[i].default = items[i].default
                /\ shown[i].isRefined <=>
                      NumericallyEqual(items[i].value, call.state.hitsPerPage)
    /\ call.op = "render" => items = call.itemsBefore
    /\ \A i \in 1..Len(items) : DOMAIN items[i] = {"label", "value", "default"}

C7_Witness ==
    /\ call.op = "render"
    /\ call.state.hitsPerPage = Str(<<"1", "2">>)
    /\ Len(EffectsOf("renderFn")) = 1
    /\ \E i \in 1..Len(items) :
          /\ items[i].value = Num(12)
          /\ EffectsOf("renderFn")[1].items[i].isRefined

(***************************************************************************)
(* C8: dispose calls the unmount callback exactly once, returns the given  *)
(* state with hitsPerPage cleared, and neither renders nor searches, in    *)
(* any lifecycle state.                                                    *)
(***************************************************************************)
C8_Dispose ==
    call.op = "dispose" =>
        /\ Len(EffectsOf("unmountFn")) = 1
        /\ Len(EffectsOf("renderFn")) = 0
        /\ Len(EffectsOf("helper.search")) = 0
        /\ ret.hitsPerPage = Undefined
        /\ ret.query = call.state.query

C8_Witness ==
    /\ call.op = "dispose"
    /\ inits = 0
    /\ call.state.hitsPerPage = Num(12)
    /\ ret.hitsPerPage = Undefined
    /\ Len(EffectsOf("unmountFn")) = 1

(***************************************************************************)
(* C9: init calls renderFn once with isFirstRender and hasNoResults true;  *)
(* every render after init calls it once with isFirstRender false and      *)
(* hasNoResults = (nbHits = 0), passing the refine function of the last    *)
(* init.                                                                   *)
(***************************************************************************)
C9_RenderCallbacks ==
    /\ call.op = "init" =>
          /\ Len(EffectsOf("renderFn")) = 1
          /\ EffectsOf("renderFn")[1].isFirstRender
          /\ EffectsOf("renderFn")[1].hasNoResults
          /\ EffectsOf("renderFn")[1].refine = inits
    /\ (call.op = "render" /\ inits > 0) =>
          /\ Len(EffectsOf("renderFn")) = 1
          /\ ~EffectsOf("renderFn")[1].isFirstRender
          /\ EffectsOf("renderFn")[1].hasNoResults <=> (call.nbHits = 0)
          /\ EffectsOf("renderFn")[1].refine = inits

C9_Witness ==
    /\ call.op = "render"
    /\ inits > 0
    /\ call.nbHits = 3
    /\ Len(EffectsOf("renderFn")) = 1
    /\ ~EffectsOf("renderFn")[1].hasNoResults

(***************************************************************************)
(* C10: over any sequence of init and render calls the working list holds  *)
(* at most one synthetic item, and once prepended it heads the list of     *)
(* every later render.                                                     *)
(***************************************************************************)
C10_SingleSynthetic ==
    /\ Cardinality({i \in 1..Len(items) : items[i] = SyntheticItem}) <= 1
    /\ (/\ call.op = "render"
        /\ Len(EffectsOf("renderFn")) = 1
        /\ Len(items) > Len(widgetParams.items))
          => EffectsOf("renderFn")[1].items[1].value = SyntheticItem.value

====
